---- MODULE Spec2Model ----
(***************************************************************************)
(* Model of src/native/seek_wrapper.cpp: the C-linkage shim around the     *)
(* LibSeek thermal camera driver (seek_open, seek_close,                   *)
(* seek_get_dimensions, seek_read_frame).                                  *)
(*                                                                         *)
(* The driver (LibSeek::SeekThermal / SeekThermalPro) is not part of the   *)
(* repository; it is the environment.  Its constructor may throw, open()   *)
(* may fail, and each read() may time out, find the transport lost, or     *)
(* succeed with a frame of any geometry the device has.                    *)
(*                                                                         *)
(* A handle is a raw pointer.  Addresses are heap cells; the callers keep  *)
(* every pointer seek_open ever returned, also after seek_close freed it   *)
(* (a dangling pointer).  A call that dereferences a dangling pointer is   *)
(* undefined behaviour and is modelled as a choice among the outcomes a    *)
(* build can show: the process crashes, or the call runs on whatever the   *)
(* freed storage holds.                                                    *)
(***************************************************************************)
EXTENDS Integers, Sequences, FiniteSets

\* ---- bounds of the model ------------------------------------------------
NumAddr == 1       \* heap cells a SeekHandle can be allocated in
NumHandles == 2    \* heap cells of SpecMulti, whose callers hold several sessions
MaxGeom == 2       \* frame geometries the device can deliver: Geom(1)..Geom(MaxGeom)

\* ---- program constants --------------------------------------------------
SEEK_CAMERA_COMPACT == 0
SEEK_CAMERA_PRO == 1

NULL == 0
Addr == 1..NumAddr

\* camera_type is an int: the two enumerators and one value that is neither
CameraTypes == {SEEK_CAMERA_COMPACT, SEEK_CAMERA_PRO, SEEK_CAMERA_PRO + 1}

\* ---- frames (cv::Mat of uint16_t) ----------------------------------------
\* A default-constructed cv::Mat: no rows, no columns, no data.
EmptyMat == [rows |-> 0, cols |-> 0, data |-> <<>>]

\* Geometry g of the device: g rows of 2 columns, so the pixel counts of
\* different geometries differ, and rows # cols in geometry 1.
GeomRows(g) == g
GeomCols(g) == 2

\* The frame a successful SeekCam::read stores: geometry g, and samples that
\* differ by position and by geometry (none of them equal to Unwritten).
DevFrame(g) ==
    [rows |-> GeomRows(g), cols |-> GeomCols(g),
     data |-> [i \in 1..(GeomRows(g) * GeomCols(g)) |-> 10 * g + i]]

MaxPixels == GeomRows(MaxGeom) * GeomCols(MaxGeom)

\* capacities a caller passes: negative, zero, and up to one more than the
\* largest frame
Capacities == (-1)..(MaxPixels + 1)

\* a sample slot of out_buffer the callee has not written
Unwritten == 0
\* *width / *height the callee has not written
Unset == -1

\* ---- the SeekHandle struct ------------------------------------------------
\* compact / pro: whether the unique_ptr owns an object; camera: which object
\* the raw pointer designates ("null", "compact", "pro").
NewSeekHandle ==
    [compact |-> FALSE, pro |-> FALSE, camera |-> "null",
     frame |-> EmptyMat, width |-> 0, height |-> 0]

\* the camera object behind a handle, as the driver sees it
NewDevice == [open |-> FALSE]

VARIABLES
    heap,      \* addresses currently allocated (new'ed and not deleted)
    issued,    \* pointers seek_open has returned to the callers
    hs,        \* contents of each cell: a SeekHandle
    dev,       \* the driver's camera object of each cell
    warmup,    \* history: geometry <<cols, rows>> of the warm-up frame of each cell
    crashed,   \* the process died (undefined behaviour took the crash outcome)
    last,      \* the last call: its arguments, what it did, what it returned
    thr        \* the call each caller thread is in, or has made last (SpecConc)

vars == <<heap, issued, hs, dev, warmup, crashed, last, thr>>

NoCall ==
    [op |-> "none", h |-> NULL, ret |-> 0,
     camType |-> 0, ffc |-> "", ctorOk |-> FALSE, openOk |-> FALSE, rdOk |-> FALSE,
     why |-> "none", g |-> 0,
     alloc |-> NULL, cap |-> 0, bufNull |-> FALSE, out |-> <<>>,
     outW |-> Unset, outH |-> Unset,
     opens |-> 0, reads |-> 0, closes |-> 0, frees |-> 0, ub |-> "none",
     preLive |-> FALSE, preClosed |-> FALSE, prev |-> "none"]

\* the caller threads of SpecConc
Threads == {"t1", "t2"}

\* a thread that is in no call.  pc: where the thread is inside the wrapper;
\* g: the geometry its own device read delivered; ovl: another call on the
\* same handle was in progress during this call; stale: the SeekHandle was
\* deleted while this call was in progress; uaf: this call went on to use the
\* deleted SeekHandle.
IdleThread ==
    [pc |-> "idle", op |-> "none", h |-> NULL, cap |-> 0, g |-> 0,
     ret |-> 0, out |-> <<>>, ovl |-> FALSE, stale |-> FALSE, uaf |-> FALSE]

Init ==
    /\ thr = [t \in Threads |-> IdleThread]
    /\ heap = {}
    /\ issued = {}
    /\ hs = [a \in Addr |-> NewSeekHandle]
    /\ dev = [a \in Addr |-> NewDevice]
    /\ warmup = [a \in Addr |-> <<0, 0>>]
    /\ crashed = FALSE
    /\ last = NoCall

\* pointers the callers hold that designate a live SeekHandle
Live == issued \cap heap
\* pointers the callers hold whose SeekHandle has been deleted
Dangling == issued \ heap

\* ---- the driver (environment) ----------------------------------------------
\* What one SeekCam::read call can do: deliver a frame of some geometry, time
\* out, or find the transport lost.  The wrapper sees only true or false.
ReadOutcomes ==
    {[ok |-> TRUE, why |-> "none", g |-> g] : g \in 1..MaxGeom}
    \cup {[ok |-> FALSE, why |-> w, g |-> 0] : w \in {"timeout", "lost"}}

\* camera->read(frame): the cv::Mat passed by reference after the call
CamReadFrame(frame, rd) == IF rd.ok THEN DevFrame(rd.g) ELSE frame

\* ---- heap -------------------------------------------------------------------
\* new SeekHandle()
New(hp, a) == hp \cup {a}
\* delete handle
Delete(hp, a) == hp \ {a}

\* delete handle destroys the camera object the unique_ptr owns.  What is
\* left of it is whether its device is still open: the wrapper closes a
\* device only through camera->close().
Destroyed(d) == [NewDevice EXCEPT !.open = d.open]

\* camera->close()
CamClose(d) == [d EXCEPT !.open = FALSE]

\* ---- seek_open ----------------------------------------------------------------
\* a seek_open that tests for the Compact enumerator and makes every other
\* value a Pro camera
Construct_UnknownIsPro(h, camera_type) ==
    IF camera_type = SEEK_CAMERA_COMPACT
    THEN [h EXCEPT !.compact = TRUE, !.camera = "compact"]
    ELSE [h EXCEPT !.pro = TRUE, !.camera = "pro"]

\* lines 36-42: which camera is constructed, and what camera points to
Construct(h, camera_type) ==
    IF camera_type = SEEK_CAMERA_PRO
    THEN [h EXCEPT !.pro = TRUE, !.camera = "pro"]
    ELSE [h EXCEPT !.compact = TRUE, !.camera = "compact"]

\* ffc_path arguments: a null pointer, the empty string, the path of a
\* calibration file that loads, the path of one that is unreadable or malformed
FfcPaths == {"null", "", "good.ffc", "bad.ffc"}

\* line 32: the std::string the camera is constructed with
FfcString(ffc_path) == IF ffc_path = "null" THEN "" ELSE ffc_path

\* The driver's calibration load (spec 4.1): an empty path means no
\* correction; a non-empty path that cannot be read or parsed is an error
\* that aborts session creation.
CalibrationLoads(ffc) == ffc # "bad.ffc"

\* What open() can return on a camera constructed with ffc: with a
\* calibration that does not load the camera never opens (when the
\* constructor has not thrown already).
OpenOutcomes(ffc) == IF CalibrationLoads(ffc) THEN BOOLEAN ELSE {FALSE}

\* a seek_open that does not test the result of open()
OpenFailed_CameraOnly(h, openOk) == h.camera = "null"

\* line 48: the guard of the open-failure path
OpenFailed(h, openOk) == h.camera = "null" \/ ~openOk

\* a seek_open that does not test the result of the warm-up read
WarmupFailed_Unchecked(rd) == FALSE

\* line 53: the guard of the warm-up-failure path
WarmupFailed(rd) == ~rd.ok

\* a warm-up failure path that deletes the handle without closing the camera
WarmupFailCleanup_NoClose(d) == d

\* line 54: the camera object after the warm-up failure path's cleanup
WarmupFailCleanup(d) == CamClose(d)

\* lines 59-60: the dimensions recorded from the warm-up frame
SetDimensions(h) == [h EXCEPT !.width = h.frame.cols, !.height = h.frame.rows]

\* The environment's choices are drawn where the code reaches them: whether
\* the constructor throws, whether open() succeeds, what the warm-up read does.
seek_open(a, camera_type, ffc_path) ==
    /\ ~crashed
    /\ a \notin heap
    /\ LET hp1 == New(heap, a)
           h1  == Construct(NewSeekHandle, camera_type)
           ffc == FfcString(ffc_path)
           call == [NoCall EXCEPT !.op = "open", !.camType = camera_type,
                                  !.ffc = ffc, !.alloc = a]
       IN
       \/ \* lines 43-46: the constructor threw
          /\ heap' = Delete(hp1, a)
          /\ last' = [call EXCEPT !.ret = NULL,
                                  !.frees = Cardinality(hp1 \ heap')]
          /\ UNCHANGED <<issued, hs, dev, warmup>>
       \/ \E openOk \in OpenOutcomes(ffc), rd \in ReadOutcomes :
          LET d1 == [NewDevice EXCEPT !.open = openOk]
              h2 == [h1 EXCEPT !.frame = CamReadFrame(h1.frame, rd)]
              \* line 48: open() is called unless camera is null
              ctor == [call EXCEPT !.ctorOk = TRUE, !.openOk = openOk,
                                   !.opens = IF h1.camera = "null" THEN 0 ELSE 1]
          IN
          IF OpenFailed(h1, openOk) THEN
            \* lines 48-51
            /\ heap' = Delete(hp1, a)
            /\ dev' = [dev EXCEPT ![a] = Destroyed(d1)]
            /\ last' = [ctor EXCEPT !.ret = NULL,
                                    !.frees = Cardinality(hp1 \ heap')]
            /\ UNCHANGED <<issued, hs, warmup>>
          ELSE IF WarmupFailed(rd) THEN
            \* lines 53-57
            /\ heap' = Delete(hp1, a)
            /\ dev' = [dev EXCEPT ![a] = Destroyed(WarmupFailCleanup(d1))]
            /\ last' = [ctor EXCEPT !.ret = NULL,
                                    !.rdOk = rd.ok, !.why = rd.why,
                                    !.reads = 1, !.closes = 1,
                                    !.frees = Cardinality(hp1 \ heap')]
            /\ UNCHANGED <<issued, hs, warmup>>
          ELSE
            \* lines 59-61
            /\ heap' = hp1
            /\ issued' = issued \cup {a}
            /\ hs' = [hs EXCEPT ![a] = SetDimensions(h2)]
            /\ dev' = [dev EXCEPT ![a] = d1]
            /\ warmup' = [warmup EXCEPT ![a] = <<h2.frame.cols, h2.frame.rows>>]
            /\ last' = [ctor EXCEPT !.ret = a, !.h = a,
                                    !.rdOk = rd.ok, !.why = rd.why, !.reads = 1]
    /\ UNCHANGED <<crashed, thr>>

\* ---- seek_close -----------------------------------------------------------------
\* lines 68-72 on a live handle: the camera object after the call
CloseDevice(h, d) == IF h.camera # "null" THEN CamClose(d) ELSE d

\* line 65
CloseNullArg(h) == h = NULL

seek_close(h) ==
    /\ ~crashed
    /\ UNCHANGED thr
    /\ LET call == [NoCall EXCEPT !.op = "close", !.h = h,
                                  !.preLive = (h \in Live),
                                  !.preClosed = (h \in Dangling)]
       IN
       \/ \* lines 65-67
          /\ CloseNullArg(h)
          /\ last' = call
          /\ UNCHANGED <<heap, issued, hs, dev, warmup, crashed>>
       \/ \* lines 68-72 on a live handle
          /\ ~CloseNullArg(h)
          /\ h \in Live
          /\ heap' = Delete(heap, h)
          /\ hs' = [hs EXCEPT ![h] = NewSeekHandle]
          /\ dev' = [dev EXCEPT ![h] = Destroyed(CloseDevice(hs[h], dev[h]))]
          /\ warmup' = [warmup EXCEPT ![h] = <<0, 0>>]
          /\ last' = [call EXCEPT
                        !.closes = IF hs[h].camera # "null" THEN 1 ELSE 0,
                        !.frees = Cardinality(heap \ heap')]
          /\ UNCHANGED <<issued, crashed>>
       \/ \* lines 68-72 on a pointer whose SeekHandle was deleted: line 68
          \* reads freed storage and line 72 deletes it a second time.  The
          \* allocator aborts the process (as does a read through null) ...
          /\ ~CloseNullArg(h)
          /\ h \notin Live
          /\ crashed' = TRUE
          /\ last' = [call EXCEPT !.ub = "crash"]
          /\ UNCHANGED <<heap, issued, hs, dev, warmup>>
       \/ \* ... or the second delete goes through unnoticed.
          /\ ~CloseNullArg(h)
          /\ h \in Dangling
          /\ last' = [call EXCEPT !.ub = "double_free", !.frees = 1]
          /\ UNCHANGED <<heap, issued, hs, dev, warmup, crashed>>

\* ---- seek_get_dimensions ----------------------------------------------------------
\* a seek_get_dimensions that does not test handle
DimsInvalidArgs_NoHandle(h, wNull, hNull) == wNull \/ hNull

\* line 76
DimsInvalidArgs(h, wNull, hNull) == h = NULL \/ wNull \/ hNull

\* a seek_get_dimensions that reports the geometry of the current frame
GetDimensions_OfFrame(hd) == <<hd.frame.cols, hd.frame.rows>>

\* lines 79-80: what is stored through width and height
GetDimensions(hd) == <<hd.width, hd.height>>

seek_get_dimensions(h, wNull, hNull) ==
    /\ ~crashed
    /\ LET call == [NoCall EXCEPT !.op = "dims", !.h = h,
                                  !.preLive = (h \in Live),
                                  !.preClosed = (h \in Dangling)]
       IN
       \/ \* lines 76-78
          /\ DimsInvalidArgs(h, wNull, hNull)
          /\ last' = [call EXCEPT !.ret = 0]
          /\ UNCHANGED crashed
       \/ \* lines 79-81 on a live handle
          /\ ~DimsInvalidArgs(h, wNull, hNull)
          /\ h \in Live
          /\ last' = [call EXCEPT !.ret = 1,
                                  !.outW = GetDimensions(hs[h])[1],
                                  !.outH = GetDimensions(hs[h])[2]]
          /\ UNCHANGED crashed
       \/ \* lines 79-81 read freed storage (or through null): the read
          \* faults ...
          /\ ~DimsInvalidArgs(h, wNull, hNull)
          /\ h \notin Live
          /\ crashed' = TRUE
          /\ last' = [call EXCEPT !.ub = "crash"]
       \/ \* ... or yields whatever the storage holds (the old values, or
          \* those of whoever owns the storage now).
          /\ ~DimsInvalidArgs(h, wNull, hNull)
          /\ h \in Dangling
          /\ \E w \in {0, GeomCols(MaxGeom)}, ht \in {0, GeomRows(MaxGeom)} :
                last' = [call EXCEPT !.ret = 1, !.outW = w, !.outH = ht,
                                     !.ub = "use_after_free"]
          /\ UNCHANGED crashed
    /\ UNCHANGED <<heap, issued, hs, dev, warmup, thr>>

\* ---- seek_read_frame ----------------------------------------------------------------
\* the caller's buffer before the call: capacity unwritten samples
OutBuffer(bufNull, capacity) ==
    IF bufNull \/ capacity <= 0 THEN <<>> ELSE [i \in 1..capacity |-> Unwritten]

\* a seek_read_frame that does not test capacity before reading
ReadInvalidArgs_NoCapacity(h, bufNull, capacity) == h = NULL \/ bufNull

\* line 85
ReadInvalidArgs(h, bufNull, capacity) == h = NULL \/ bufNull \/ capacity <= 0

\* a seek_read_frame that gives the session up when the read fails
AfterRead_DropOnFailure(hd, frame, rd) ==
    IF rd.ok THEN [hd EXCEPT !.frame = frame]
    ELSE [hd EXCEPT !.camera = "null", !.width = 0, !.height = 0]

\* a seek_read_frame that reads into a local frame and leaves handle->frame
\* as it was
AfterRead_KeepOld(hd, frame, rd) == hd

\* line 89: the SeekHandle after camera->read(handle->frame) stored `frame`
AfterRead(hd, frame, rd) == [hd EXCEPT !.frame = frame]

\* a frame buffer that is one object for all handles, not a member of each
StoreHandle_SharedFrame(mem, h, hd) ==
    [a \in DOMAIN mem |->
        IF a = h THEN hd ELSE [mem[a] EXCEPT !.frame = hd.frame]]

\* lines 13-20, 89: the frame read is stored in the SeekHandle that handle
\* points to; mem is the contents of all cells
StoreHandle(mem, h, hd) == [mem EXCEPT ![h] = hd]

\* line 93
TotalPixels(frame) == frame.rows * frame.cols

\* a capacity test that is off by one
BufferTooSmall_OffByOne(capacity, total_pixels) == capacity + 1 < total_pixels

\* line 94
BufferTooSmall(capacity, total_pixels) == capacity < total_pixels

\* line 98: memcpy of n samples from src to the start of out.  A copy longer
\* than out runs past its end.
Memcpy(out, src, n) ==
    [i \in 1..(IF n > Len(out) THEN n ELSE Len(out)) |->
        IF i <= n THEN src[i] ELSE out[i]]

\* a seek_read_frame that copies what fits before it tests the capacity
ReadReturn_CopyBeforeCheck(did, capacity, frame, rd) ==
    IF ~rd.ok THEN [did EXCEPT !.ret = -2]
    ELSE IF BufferTooSmall(capacity, TotalPixels(frame))
    THEN [did EXCEPT !.ret = -3,
                     !.out = Memcpy(did.out, frame.data, capacity)]
    ELSE [did EXCEPT !.ret = TotalPixels(frame),
                     !.out = Memcpy(did.out, frame.data, TotalPixels(frame))]

\* a seek_read_frame that reads the device a second time when the read fails
ReadReturn_Retry(did, capacity, frame, rd) ==
    IF ~rd.ok THEN [did EXCEPT !.ret = -2, !.reads = did.reads + 1]
    ELSE IF BufferTooSmall(capacity, TotalPixels(frame))
    THEN [did EXCEPT !.ret = -3]
    ELSE [did EXCEPT !.ret = TotalPixels(frame),
                     !.out = Memcpy(did.out, frame.data, TotalPixels(frame))]

\* lines 89-99: what the call returns and leaves in out_buffer, once
\* camera->read has stored `frame` (did: the call and its device read)
ReadReturn(did, capacity, frame, rd) ==
    IF ~rd.ok THEN [did EXCEPT !.ret = -2]
    ELSE IF BufferTooSmall(capacity, TotalPixels(frame))
    THEN [did EXCEPT !.ret = -3]
    ELSE [did EXCEPT !.ret = TotalPixels(frame),
                     !.out = Memcpy(did.out, frame.data, TotalPixels(frame))]

\* history: how the previous call failed, when it was a seek_read_frame on the
\* same handle that returned -2 ("none" otherwise)
PrevFailure(h) ==
    IF last.op = "read" /\ last.h = h /\ last.ret = -2 /\ last.ub = "none"
    THEN last.why ELSE "none"

seek_read_frame(h, bufNull, capacity) ==
    /\ ~crashed
    /\ LET call == [NoCall EXCEPT !.op = "read", !.h = h, !.cap = capacity,
                                  !.bufNull = bufNull,
                                  !.out = OutBuffer(bufNull, capacity),
                                  !.preLive = (h \in Live),
                                  !.preClosed = (h \in Dangling),
                                  !.prev = PrevFailure(h)]
       IN
       \/ \* lines 85-87
          /\ ReadInvalidArgs(h, bufNull, capacity)
          /\ last' = [call EXCEPT !.ret = -1]
          /\ UNCHANGED <<hs, crashed>>
       \/ \* lines 89-99 on a live handle
          /\ ~ReadInvalidArgs(h, bufNull, capacity)
          /\ h \in Live
          /\ \E rd \in ReadOutcomes :
             LET frame == CamReadFrame(hs[h].frame, rd)
                 did == [call EXCEPT !.reads = 1, !.rdOk = rd.ok,
                                     !.why = rd.why, !.g = rd.g]
             IN
             /\ hs' = StoreHandle(hs, h, AfterRead(hs[h], frame, rd))
             /\ last' = ReadReturn(did, capacity, frame, rd)
          /\ UNCHANGED crashed
       \/ \* line 89 on a pointer whose SeekHandle was deleted: handle->camera
          \* is read from freed storage (or through null) and called through.
          \* The call faults ...
          /\ ~ReadInvalidArgs(h, bufNull, capacity)
          /\ h \notin Live
          /\ crashed' = TRUE
          /\ last' = [NoCall EXCEPT !.op = "read", !.h = h,
                                    !.preClosed = (h \in Dangling),
                                    !.ub = "crash"]
          /\ UNCHANGED hs
       \/ \* ... or runs on whatever the storage holds: it reports a failure,
          \* or copies out some number of samples that are no frame of this
          \* session.
          /\ ~ReadInvalidArgs(h, bufNull, capacity)
          /\ h \in Dangling
          /\ \E r \in {-2, -3} \cup 1..capacity :
                last' = [call EXCEPT !.ret = r, !.ub = "use_after_free",
                                     !.reads = 1,
                                     !.out = [i \in 1..capacity |->
                                                IF i <= r THEN 1 ELSE Unwritten]]
          /\ UNCHANGED <<hs, crashed>>
    /\ UNCHANGED <<heap, issued, dev, warmup, thr>>

\* ---- the callers ----------------------------------------------------------------------
\* (out_buffer is null, capacity): every capacity with a buffer, and a null
\* buffer with a capacity that is wrong and one that would do
ReadArgs ==
    {<<FALSE, c>> : c \in Capacities} \cup {<<TRUE, c>> : c \in {0, MaxPixels}}

\* a handle argument: null, or a pointer seek_open returned
Handles == {NULL} \cup issued

Next ==
    \/ \E a \in Addr, ct \in CameraTypes, p \in FfcPaths : seek_open(a, ct, p)
    \/ \E h \in Handles : seek_close(h)
    \/ \E h \in Handles, wNull, hNull \in BOOLEAN :
          seek_get_dimensions(h, wNull, hNull)
    \/ \E h \in Handles, args \in ReadArgs :
          seek_read_frame(h, args[1], args[2])

Spec == Init /\ [][Next]_vars

\* ---- several sessions at once ----------------------------------------------------------
\* The same entry points with NumHandles heap cells.  These callers open
\* cameras without calibration, use only handles that are live, and read with
\* a buffer that is large enough for every frame.
MultiAddr == 1..NumHandles

InitMulti ==
    /\ thr = [t \in Threads |-> IdleThread]
    /\ heap = {}
    /\ issued = {}
    /\ hs = [a \in MultiAddr |-> NewSeekHandle]
    /\ dev = [a \in MultiAddr |-> NewDevice]
    /\ warmup = [a \in MultiAddr |-> <<0, 0>>]
    /\ crashed = FALSE
    /\ last = NoCall

NextMulti ==
    \/ \E a \in MultiAddr, ct \in {SEEK_CAMERA_COMPACT, SEEK_CAMERA_PRO} :
          seek_open(a, ct, "")
    \/ \E h \in Live : seek_close(h)
    \/ \E h \in Live : seek_get_dimensions(h, FALSE, FALSE)
    \/ \E h \in Live : seek_read_frame(h, FALSE, MaxPixels)

SpecMulti == InitMulti /\ [][NextMulti]_vars

\* ---- two threads on one handle ------------------------------------------------------
\* The wrapper holds no lock (no mutex or atomic is declared in
\* seek_wrapper.cpp), so a call of one thread can run between any two accesses
\* another thread's call makes to the SeekHandle or to the device.  The calls
\* are therefore split where they touch shared state: seek_read_frame into
\* its argument test (line 85), the blocking camera->read (line 89) and the
\* copy-out (lines 93-99); seek_close into closing the camera (lines 65-71)
\* and delete (line 72).  These callers pass only handles that are live when
\* the call begins, with a buffer.

\* capacities of the concurrent callers: one frame of geometry 1, and room for
\* every frame
ConcCapacities == {TotalPixels(DevFrame(1)), MaxPixels}

\* line 85: !handle->camera
CameraGone(hd) == hd.camera = "null"

\* the other threads that are inside a call on handle h
InFlight(t, h) == {u \in Threads \ {t} : thr[u].pc # "idle" /\ thr[u].h = h}

\* thread t begins the call rec: it and the calls in progress on the same
\* handle overlap
Enter(t, rec) ==
    [u \in Threads |->
        IF u = t THEN [rec EXCEPT !.ovl = InFlight(t, rec.h) # {}]
        ELSE IF u \in InFlight(t, rec.h) THEN [thr[u] EXCEPT !.ovl = TRUE]
        ELSE thr[u]]

\* a copy-out that takes the frame from a snapshot made when the session was
\* opened, not from handle->frame
HandleFrame_Warmup(mem, h) == DevFrame(mem[h].height)

\* lines 93, 98: the frame the copy-out reads is the SeekHandle's member
HandleFrame(mem, h) == mem[h].frame

\* line 85, and the start of camera->read at line 89
ReadEnter(t, h, capacity) ==
    /\ ~crashed
    /\ thr[t].pc = "idle"
    /\ LET call == [IdleThread EXCEPT !.op = "read", !.h = h, !.cap = capacity,
                                      !.out = OutBuffer(FALSE, capacity)]
       IN
       IF ReadInvalidArgs(h, FALSE, capacity) \/ CameraGone(hs[h])
       THEN thr' = Enter(t, [call EXCEPT !.ret = -1])
       ELSE thr' = Enter(t, [call EXCEPT !.pc = "read"])
    /\ UNCHANGED <<heap, issued, hs, dev, warmup, crashed, last>>

\* line 89: camera->read(handle->frame) returns, having stored into the
\* SeekHandle's frame; lines 89-91 when it failed
ReadDevice(t, rd) ==
    /\ ~crashed
    /\ thr[t].pc = "read"
    /\ ~thr[t].stale
    /\ LET me == thr[t]
           frame == CamReadFrame(hs[me.h].frame, rd)
       IN
       /\ hs' = StoreHandle(hs, me.h, AfterRead(hs[me.h], frame, rd))
       /\ thr' = [thr EXCEPT ![t] =
                    IF rd.ok THEN [me EXCEPT !.pc = "copy", !.g = rd.g]
                    ELSE [ReadReturn(me, me.cap, frame, rd) EXCEPT !.pc = "idle"]]
    /\ UNCHANGED <<heap, issued, dev, warmup, crashed, last>>

\* lines 93-99, on the frame the SeekHandle holds now
ReadFinish(t) ==
    /\ ~crashed
    /\ thr[t].pc = "copy"
    /\ ~thr[t].stale
    /\ LET me == thr[t]
       IN thr' = [thr EXCEPT ![t] =
                    [ReadReturn(me, me.cap, HandleFrame(hs, me.h),
                                [ok |-> TRUE, why |-> "none", g |-> me.g])
                        EXCEPT !.pc = "idle"]]
    /\ UNCHANGED <<heap, issued, hs, dev, warmup, crashed, last>>

\* lines 89-99 after another thread deleted the SeekHandle: the camera and
\* the frame are used after free.  The process faults, or the call returns
\* what the storage happens to give.
ReadFreed(t) ==
    /\ ~crashed
    /\ thr[t].pc \in {"read", "copy"}
    /\ thr[t].stale
    /\ LET me == [thr[t] EXCEPT !.pc = "idle", !.uaf = TRUE]
       IN
       \/ /\ crashed' = TRUE
          /\ thr' = [thr EXCEPT ![t] = me]
       \/ /\ \E r \in {-2, me.cap} :
                thr' = [thr EXCEPT ![t] =
                          [me EXCEPT !.ret = r,
                                     !.out = [i \in 1..me.cap |->
                                                IF i <= r THEN 1 ELSE Unwritten]]]
          /\ UNCHANGED crashed
    /\ UNCHANGED <<heap, issued, hs, dev, warmup, last>>

\* lines 65-71: camera->close(), camera = nullptr
CloseEnter(t, h) ==
    /\ ~crashed
    /\ thr[t].pc = "idle"
    /\ ~CloseNullArg(h)
    /\ dev' = [dev EXCEPT ![h] = CloseDevice(hs[h], dev[h])]
    /\ hs' = [hs EXCEPT ![h].camera = "null"]
    /\ thr' = Enter(t, [IdleThread EXCEPT !.op = "close", !.h = h, !.pc = "free"])
    /\ UNCHANGED <<heap, issued, warmup, crashed, last>>

\* line 72: delete handle.  The calls still in progress on the handle now
\* hold a pointer to freed storage.
CloseFree(t) ==
    /\ ~crashed
    /\ thr[t].pc = "free"
    /\ ~thr[t].stale
    /\ LET h == thr[t].h
       IN
       /\ heap' = Delete(heap, h)
       /\ hs' = [hs EXCEPT ![h] = NewSeekHandle]
       /\ dev' = [dev EXCEPT ![h] = Destroyed(dev[h])]
       /\ warmup' = [warmup EXCEPT ![h] = <<0, 0>>]
       /\ thr' = [u \in Threads |->
                    IF u = t THEN [thr[u] EXCEPT !.pc = "idle"]
                    ELSE IF u \in InFlight(t, h) THEN [thr[u] EXCEPT !.stale = TRUE]
                    ELSE thr[u]]
    /\ UNCHANGED <<issued, crashed, last>>

\* line 72 after another thread's seek_close deleted the SeekHandle: a second
\* delete, which the allocator aborts on or lets through
CloseFreed(t) ==
    /\ ~crashed
    /\ thr[t].pc = "free"
    /\ thr[t].stale
    /\ thr' = [thr EXCEPT ![t] = [@ EXCEPT !.pc = "idle", !.uaf = TRUE]]
    /\ crashed' \in BOOLEAN
    /\ UNCHANGED <<heap, issued, hs, dev, warmup, last>>

NextConc ==
    \/ \E a \in Addr : seek_open(a, SEEK_CAMERA_COMPACT, "")
    \/ \E t \in Threads, h \in Live, c \in ConcCapacities : ReadEnter(t, h, c)
    \/ \E t \in Threads, rd \in ReadOutcomes : ReadDevice(t, rd)
    \/ \E t \in Threads : ReadFinish(t)
    \/ \E t \in Threads : ReadFreed(t)
    \/ \E t \in Threads, h \in Live : CloseEnter(t, h)
    \/ \E t \in Threads : CloseFree(t)
    \/ \E t \in Threads : CloseFreed(t)

SpecConc == Init /\ [][NextConc]_vars

\* ---- properties ---------------------------------------------------------------------

\* the last call was op on a handle that was live when it was made
LastOn(op) == last.op = op /\ last.preLive

\* the samples of the caller's buffer are as they were before the call
OutUntouched == last.out = OutBuffer(last.bufNull, last.cap)

\* C1: seek_open never exposes partial success.  It returns a handle exactly
\* when construction, device open and the warm-up read all succeeded; when it
\* returns null the SeekHandle it allocated has been freed (once), and a
\* handle it returns is live, with its device open and the dimensions of the
\* warm-up frame.
C1_OpenAllOrNothing ==
    last.op = "open" =>
        /\ (last.ret # NULL) <=> (last.ctorOk /\ last.openOk /\ last.rdOk)
        /\ last.ret = NULL => (last.alloc \notin heap /\ last.frees = 1)
        /\ last.ret # NULL =>
              /\ last.ret = last.alloc
              /\ last.ret \in Live
              /\ dev[last.ret].open
              /\ hs[last.ret].camera # "null"
              /\ hs[last.ret].frame # EmptyMat

\* C1 witness: the warm-up read failed after construction and open succeeded,
\* and seek_open returned null.
C1_Witness ==
    /\ last.op = "open" /\ last.ctorOk /\ last.openOk /\ ~last.rdOk
    /\ last.reads = 1 /\ last.ret = NULL

\* C2: seek_close is idempotent on a real handle: a second seek_close on a
\* handle that was already closed is a no-op: it does not crash, frees
\* nothing and touches no freed storage.
C2_CloseIdempotent ==
    (last.op = "close" /\ last.preClosed) =>
        (~crashed /\ last.frees = 0 /\ last.ub = "none")

\* C3: after seek_close(H) every later operation on H fails:
\* seek_get_dimensions(H) returns 0, and seek_read_frame(H) returns an error
\* without a device read.
C3_ClosedHandleFails ==
    last.preClosed =>
        /\ ~crashed
        /\ last.op = "dims" => last.ret = 0
        /\ last.op = "read" => (last.ret < 0 /\ last.reads = 0)

\* C4: on a handle seek_open returned, seek_get_dimensions stores the cols and
\* rows of the warm-up frame, whatever seek_read_frame calls came in between;
\* the stored dimensions of every live handle are those of its warm-up frame.
C4_DimensionsStable ==
    /\ \A a \in Live : <<hs[a].width, hs[a].height>> = warmup[a]
    /\ (LastOn("dims") /\ last.ret = 1) =>
          <<last.outW, last.outH>> = warmup[last.h]

\* C4 witness: seek_get_dimensions succeeded on a live handle whose current
\* frame (from a later seek_read_frame) has another geometry than the warm-up
\* frame.
C4_Witness ==
    /\ LastOn("dims") /\ last.ret = 1
    /\ <<hs[last.h].frame.cols, hs[last.h].frame.rows>> # warmup[last.h]

C6_WritesSessionPixels ==
    (LastOn("read") /\ last.ret >= 0
        /\ last.cap >= hs[last.h].width * hs[last.h].height) =>
        LET n == hs[last.h].width * hs[last.h].height IN
        /\ last.ret = n
        /\ Len(last.out) = last.cap
        /\ \A i \in 1..last.cap :
              last.out[i] = IF i <= n THEN hs[last.h].frame.data[i] ELSE Unwritten

\* C7: geometry is fixed for the session: a device read that delivers a frame
\* whose geometry differs from the warm-up frame's makes seek_read_frame
\* return an error.
C7_GeometryMismatchIsError ==
    (LastOn("read") /\ last.rdOk
        /\ <<hs[last.h].frame.cols, hs[last.h].frame.rows>> # warmup[last.h]) =>
        last.ret < 0

\* C8: a transport failure latches the session: the seek_read_frame that
\* follows a seek_read_frame which failed because the transport was lost
\* fails without a device read.
C8_TransportLostLatches ==
    (LastOn("read") /\ last.prev = "lost") =>
        (last.ret < 0 /\ last.reads = 0)

\* C9: a read failure (-2) does not end the session: the handle is still
\* live, its camera set and its device open, and its dimensions are those of
\* the warm-up frame.
C9_ReadFailureKeepsSession ==
    (LastOn("read") /\ last.ret = -2) =>
        /\ ~crashed
        /\ last.h \in Live
        /\ hs[last.h].camera # "null"
        /\ dev[last.h].open
        /\ <<hs[last.h].width, hs[last.h].height>> = warmup[last.h]

\* C9 witness: a seek_read_frame succeeded right after a seek_read_frame on the
\* same handle had timed out (-2), with no seek_open in between.
C9_Witness ==
    /\ LastOn("read") /\ last.prev = "timeout"
    /\ last.ret > 0 /\ last.reads = 1

\* C10: the codes of seek_read_frame, on a null or live handle, in order: -1
\* exactly when handle is null, out_buffer is null or capacity <= 0, and then
\* no device read is made; otherwise one device read is made and -2 exactly
\* when it fails; otherwise -3 exactly when capacity is less than the pixel
\* count of the frame just read; otherwise that pixel count, which is positive.
C10_CodesPartition ==
    (last.op = "read" /\ ~last.preClosed) =>
        LET invalid == last.h = NULL \/ last.bufNull \/ last.cap <= 0
            total == TotalPixels(hs[last.h].frame)
        IN
        /\ (last.ret = -1) <=> invalid
        /\ invalid => last.reads = 0
        /\ ~invalid =>
              /\ last.reads = 1
              /\ (last.ret = -2) <=> ~last.rdOk
              /\ last.rdOk =>
                    /\ (last.ret = -3) <=> (last.cap < total)
                    /\ last.cap >= total => (last.ret = total /\ last.ret > 0)

\* C10 witness: the device read failed on a call whose capacity was also too
\* small for the handle's frame: the read failure is what is reported.
C10_Witness ==
    /\ LastOn("read") /\ last.reads = 1 /\ ~last.rdOk
    /\ last.cap < TotalPixels(hs[last.h].frame)
    /\ last.ret = -2

\* C11: every failing return of seek_read_frame (-1, -2, -3; null or live
\* handle) leaves the caller's out_buffer as it was; out_buffer is written
\* only by a call that returns a pixel count.
C11_FailureWritesNothing ==
    (last.op = "read" /\ ~last.preClosed) =>
        /\ last.ret \in {-1, -2, -3} => OutUntouched
        /\ ~OutUntouched => last.ret > 0

\* C11 witness: a device read delivered a frame, the buffer had room for some
\* samples but not for all, and the call returned -3.
C11_Witness ==
    /\ LastOn("read") /\ last.ret = -3 /\ last.rdOk
    /\ Len(last.out) = last.cap /\ last.cap >= 1
    /\ \A i \in 1..last.cap : last.out[i] = Unwritten

\* C12: a null handle is safe on every entry point.  seek_close(null) does
\* nothing, seek_get_dimensions(null, ..) returns 0 and stores nothing,
\* seek_read_frame(null, ..) returns -1 and writes nothing; none of them
\* faults, reads or closes a device or frees anything, and the step leaves
\* every SeekHandle, every device and the heap as they were.
C12_NullCall == last.h = NULL /\ last.op \in {"close", "dims", "read"}

C12_NullHandleSafe ==
    /\ [](C12_NullCall =>
            /\ ~crashed /\ last.ub = "none"
            /\ last.reads = 0 /\ last.closes = 0 /\ last.frees = 0
            /\ last.op = "dims" =>
                  (last.ret = 0 /\ last.outW = Unset /\ last.outH = Unset)
            /\ last.op = "read" => (last.ret = -1 /\ OutUntouched))
    /\ [][C12_NullCall' => UNCHANGED <<heap, issued, hs, dev, warmup, crashed>>]_vars

\* C12 witness: seek_read_frame was called with a null handle, a buffer and a
\* positive capacity while a session was live.
C12_Witness ==
    /\ last.op = "read" /\ last.h = NULL /\ ~last.bufNull /\ last.cap > 0
    /\ last.ret = -1
    /\ Live # {}

\* C13: seek_open with the path of a calibration file that is unreadable or
\* malformed returns null, for either camera variant, and keeps no SeekHandle.
C13_BadCalibrationNoHandle ==
    (last.op = "open" /\ ~CalibrationLoads(last.ffc)) =>
        (last.ret = NULL /\ last.alloc \notin heap)

\* C13 witness: a Pro camera was constructed with a bad calibration path, its
\* open() failed, and seek_open returned null.
C13_Witness ==
    /\ last.op = "open" /\ last.ffc = "bad.ffc"
    /\ last.camType = SEEK_CAMERA_PRO
    /\ last.ctorOk /\ ~last.openOk
    /\ last.ret = NULL

\* C14: handles are independent: a seek_close, seek_get_dimensions or
\* seek_read_frame on one handle leaves every other live handle live, with
\* the same SeekHandle contents (dimensions, frame, camera pointer) and the
\* same device state, in every order of calls on distinct handles.
C14_HandlesIndependent ==
    [][\A a \in Live :
          (last'.op \in {"close", "dims", "read"} /\ last'.h # a) =>
              /\ a \in heap' /\ a \in issued'
              /\ hs'[a] = hs[a]
              /\ dev'[a] = dev[a]
              /\ warmup'[a] = warmup[a]]_vars

\* C14 witness: a seek_read_frame on one handle delivered a frame while another
\* handle was live with a frame of another geometry.
C14_Witness ==
    /\ LastOn("read") /\ last.ret > 0
    /\ \E a \in Live : a # last.h /\ hs[a].frame # hs[last.h].frame

\* C15: no device is leaked: in every state a device that is open belongs to
\* a live handle seek_open returned; when the warm-up read fails the camera
\* is closed (once) and null is returned.
C15_NoDeviceLeak ==
    /\ \A a \in DOMAIN dev : dev[a].open => a \in Live
    /\ (last.op = "open" /\ last.ctorOk /\ last.openOk /\ ~last.rdOk) =>
          (last.closes = 1 /\ last.ret = NULL)

\* C15 witness: seek_open opened the device, the warm-up read failed, and the
\* device is closed and the SeekHandle gone when seek_open has returned.
C15_Witness ==
    /\ last.op = "open" /\ last.openOk /\ last.reads = 1 /\ ~last.rdOk
    /\ ~dev[last.alloc].open
    /\ last.alloc \notin heap

\* C16: seek_open runs its steps in order: construction, then open(), then
\* one warm-up read.  open() is not called when the constructor threw, the
\* warm-up read is not made when open() failed, and a seek_open that returns a
\* handle has called open() once and read the device exactly once.
C16_OpenSequence ==
    last.op = "open" =>
        /\ ~last.ctorOk => (last.opens = 0 /\ last.reads = 0)
        /\ last.ctorOk => last.opens = 1
        /\ (last.ctorOk /\ ~last.openOk) => last.reads = 0
        /\ (last.ctorOk /\ last.openOk) => last.reads = 1
        /\ last.ret # NULL => (last.opens = 1 /\ last.reads = 1)

\* C16 witness: a camera without calibration was constructed, its open()
\* failed, and seek_open returned null without reading the device.
C16_Witness ==
    /\ last.op = "open" /\ last.ffc = "" /\ last.ctorOk /\ ~last.openOk
    /\ last.opens = 1 /\ last.reads = 0
    /\ last.ret = NULL

\* C17: nothing is retried: a seek_read_frame (null or live handle) makes no
\* device read when its arguments are invalid and exactly one when they are
\* valid, and a device read that fails makes that same call return -2.
C17_NoRetry ==
    (last.op = "read" /\ ~last.preClosed) =>
        /\ ReadInvalidArgs(last.h, last.bufNull, last.cap) => last.reads = 0
        /\ ~ReadInvalidArgs(last.h, last.bufNull, last.cap) => last.reads = 1
        /\ (last.reads >= 1 /\ ~last.rdOk) => last.ret = -2

\* C17 witness: the one device read of a call with valid arguments timed out
\* and the call returned -2.
C17_Witness ==
    /\ LastOn("read") /\ last.cap = MaxPixels /\ ~last.bufNull
    /\ last.reads = 1 /\ last.why = "timeout"
    /\ last.ret = -2

\* C19: variant selection.  A handle seek_open returns for camera_type 1 owns
\* a Pro camera, for every other value (0, or a value that is no enumerator)
\* a Compact camera.  In every live SeekHandle exactly one of compact / pro is
\* set and camera points to that object, so the camera->read of
\* seek_read_frame is never made through a null pointer on a live handle.
C19_VariantSelection ==
    /\ \A a \in Live :
          /\ hs[a].compact # hs[a].pro
          /\ hs[a].camera = (IF hs[a].pro THEN "pro" ELSE "compact")
    /\ (last.op = "open" /\ last.ret # NULL) =>
          /\ last.camType = SEEK_CAMERA_PRO => hs[last.ret].pro
          /\ last.camType # SEEK_CAMERA_PRO => hs[last.ret].compact
    /\ (LastOn("read") /\ last.reads = 1) => hs[last.h].camera # "null"

\* C19 witness: seek_open returned a handle for a camera_type that is neither
\* enumerator, and the handle owns a Compact camera.
C19_Witness ==
    /\ last.op = "open" /\ last.ret # NULL
    /\ last.camType \notin {SEEK_CAMERA_COMPACT, SEEK_CAMERA_PRO}
    /\ hs[last.ret].compact /\ hs[last.ret].camera = "compact"

\* C20: the capacity check comes after the device read.  A seek_read_frame
\* that returns -3 has made one device read, which succeeded; the frame it
\* delivered is now the handle's frame (it has been consumed and is not
\* delivered again), out_buffer is as it was, and the handle's width and
\* height are those of the warm-up frame.
C20_TooSmallConsumesFrame ==
    (LastOn("read") /\ last.ret = -3) =>
        /\ last.reads = 1 /\ last.rdOk
        /\ hs[last.h].frame = DevFrame(last.g)
        /\ last.cap < TotalPixels(DevFrame(last.g))
        /\ OutUntouched
        /\ <<hs[last.h].width, hs[last.h].height>> = warmup[last.h]

\* C20 witness: a seek_read_frame whose capacity covers width*height returned
\* -3 after a device read delivered a frame of another geometry, which the
\* handle now holds.
C20_Witness ==
    /\ LastOn("read") /\ last.ret = -3 /\ last.reads = 1
    /\ last.cap >= hs[last.h].width * hs[last.h].height
    /\ <<hs[last.h].frame.cols, hs[last.h].frame.rows>> # warmup[last.h]

\* thread t's last call was a seek_read_frame that returned the positive count
\* n and wrote to out_buffer exactly the frame its own device read delivered
CopiedOwnFrame(t) ==
    LET own == DevFrame(thr[t].g)
    IN /\ thr[t].ret = TotalPixels(own)
       /\ thr[t].out = Memcpy(OutBuffer(FALSE, thr[t].cap), own.data,
                              TotalPixels(own))

\* thread t has returned from a seek_read_frame
ReadReturned(t) == thr[t].op = "read" /\ thr[t].pc = "idle"

====
